---------------------------- MODULE Spec2Model ----------------------------
(***************************************************************************)
(* funcdiff (src/main.go): inventories of Go function declarations at two  *)
(* git refs, the diff engine that classifies every declaration as new,     *)
(* removed or changed, and the Markdown renderer.                          *)
(*                                                                         *)
(* Text is modelled as a sequence of one-character strings, so that the    *)
(* string operations of the code (concatenation, ReplaceAll, Split,        *)
(* TrimRight, sort.Strings) are computed character by character.           *)
(***************************************************************************)
EXTENDS Integers, Sequences, FiniteSets, TLC

VARIABLES
    pc,       \* position of the run: "start", "diffed", "swapped"
    from,     \* FuncSet built from the --from ref (FuncKey -> FuncInfo)
    to,       \* FuncSet built from the --to ref
    result,   \* the DiffResult returned by the last diffFuncs call
    normIn,   \* a body text handed to normalizeBody
    normOut,  \* what the last normalizeBody call returned
    normCalls, \* how many times normalizeBody has been applied to normIn
    pair,     \* the changed pair [from, to] handed to writeChangedFuncFile
    shown,    \* what gitShowFile returned for the two sides of the pair
    written,  \* what writeChangedFuncFile returned and the file it wrote
    opts,     \* the flags of the run: summaryOnly, outDir
    env,      \* the file system the run meets: mkdirOk, unwritable
    report,   \* the document buildMarkdownReport returned
    files,    \* the names writeAllChangedFuncFiles returned
    outFiles, \* the files of the output directory: path -> content
    listing,  \* what gitListGoFiles returned for the ref: its error or the files
    flags,    \* the flags collectFuncs reads: onlyExported, pkgFilter
    collected \* what collectFuncs returned: the FuncSet and the error

diffVars == <<from, to, result>>

reportVars == <<opts, env, report, files, outFiles>>

fileVars == <<pair, shown, written>>

normVars == <<normIn, normOut, normCalls>>

collectVars == <<listing, flags, collected>>

vars == <<pc, diffVars, normVars, fileVars, reportVars, collectVars>>

(***************************************************************************)
(* Bounds of the model.                                                    *)
(***************************************************************************)
\* largest line number of a declaration
MaxLine == 2

\* longest body text handed to normalizeBody alone
MaxNormLen == 5

\* longest file content gitShowFile returns for one side of a changed pair
MaxSrcLen == 3

\* most declarations of one inventory handed to buildMarkdownReport
MaxReportFuncs == 2

(***************************************************************************)
(* Go AST fragments (go/ast) read by formatSignature and exprToString.     *)
(***************************************************************************)
Ident(name) == [kind |-> "Ident", Name |-> name]

StarExpr(x) == [kind |-> "StarExpr", X |-> x]

Field(names, type) == [Names |-> names, Type |-> type]

FuncType(params, results) == [kind |-> "FuncType", Params |-> params, Results |-> results]

\* a generic instantiation T[K]: one of the expressions exprToString has no case for
IndexExpr(x, index) == [kind |-> "IndexExpr", X |-> x, Index |-> index]

RECURSIVE JoinParts(_, _)
\* strings.Join(parts, sep)
JoinParts(parts, sep) ==
    IF parts = <<>> THEN <<>>
    ELSE IF Len(parts) = 1 THEN parts[1]
    ELSE parts[1] \o sep \o JoinParts(Tail(parts), sep)

RECURSIVE exprToString(_)
RECURSIVE fieldParts(_)
RECURSIVE namedParts(_, _)

\* fmt.Sprintf("%s %s", name.Name, typeStr) for every name of one field
namedParts(names, typeStr) ==
    IF names = <<>> THEN <<>>
    ELSE <<Head(names) \o <<" ">> \o typeStr>> \o namedParts(Tail(names), typeStr)

\* the loop of fieldListToString: one part per unnamed field, one per name otherwise
fieldParts(list) ==
    IF list = <<>> THEN <<>>
    ELSE LET f == Head(list)
             typeStr == exprToString(f.Type)
         IN  (IF Len(f.Names) = 0 THEN <<typeStr>> ELSE namedParts(f.Names, typeStr))
                 \o fieldParts(Tail(list))

fieldListToString(fl) ==
    IF Len(fl) = 0 THEN <<>> ELSE JoinParts(fieldParts(fl), <<",", " ">>)

formatSignature(ft) ==
    LET params == fieldListToString(ft.Params)
        results == fieldListToString(ft.Results)
    IN  IF results = <<>> THEN <<"(">> \o params \o <<")">>
        ELSE <<"(">> \o params \o <<")", " ", "(">> \o results \o <<")">>

exprToString(e) ==
    CASE e.kind = "Ident" -> e.Name
      [] e.kind = "StarExpr" -> <<"*">> \o exprToString(e.X)
      [] e.kind = "SelectorExpr" -> exprToString(e.X) \o <<".">> \o exprToString(e.Sel)
      [] e.kind = "ArrayType" -> <<"[", "]">> \o exprToString(e.Elt)
      [] e.kind = "MapType" ->
            <<"m", "a", "p", "[">> \o exprToString(e.Key) \o <<"]">> \o exprToString(e.Value)
      [] e.kind = "FuncType" -> <<"f", "u", "n", "c">> \o formatSignature(e)
      [] e.kind = "InterfaceType" ->
            <<"i", "n", "t", "e", "r", "f", "a", "c", "e", "{", "}">>
      [] e.kind = "ChanType" -> <<"c", "h", "a", "n", " ">> \o exprToString(e.Value)
      [] OTHER -> <<"<", "?", ">">>

\* formatReceiver(fl): fl is the list of receiver fields, empty for a function
formatReceiver(fl) ==
    IF Len(fl) = 0 THEN <<>>
    ELSE IF fl[1].Type.kind = "Ident" THEN fl[1].Type.Name
    ELSE IF fl[1].Type.kind = "StarExpr"
    THEN IF fl[1].Type.X.kind = "Ident" THEN <<"*">> \o fl[1].Type.X.Name ELSE <<>>
    ELSE exprToString(fl[1].Type)

(***************************************************************************)
(* The string functions of the Go library that the renderer calls.        *)
(***************************************************************************)
HasPrefix(s, prefix) == Len(s) >= Len(prefix) /\ SubSeq(s, 1, Len(prefix)) = prefix

RECURSIVE Contains(_, _)
\* strings.Contains(s, substr)
Contains(s, substr) ==
    IF HasPrefix(s, substr) THEN TRUE
    ELSE IF s = <<>> THEN FALSE
    ELSE Contains(Tail(s), substr)

RECURSIVE LastSlash(_)
\* the index of the last "/" of a path, 0 when it has none
LastSlash(path) ==
    IF path = <<>> THEN 0
    ELSE IF path[Len(path)] = "/" THEN Len(path)
    ELSE LastSlash(SubSeq(path, 1, Len(path) - 1))

\* filepath.Dir of a clean slash-separated path
Dir(path) ==
    IF LastSlash(path) = 0 THEN <<".">>
    ELSE IF LastSlash(path) = 1 THEN <<"/">>
    ELSE SubSeq(path, 1, LastSlash(path) - 1)

RECURSIVE ReplaceAll(_, _, _)
\* strings.ReplaceAll(s, old, new), old not empty: left to right, no overlap
ReplaceAll(s, old, new) ==
    IF s = <<>> THEN <<>>
    ELSE IF HasPrefix(s, old)
    THEN new \o ReplaceAll(SubSeq(s, Len(old) + 1, Len(s)), old, new)
    ELSE <<Head(s)>> \o ReplaceAll(Tail(s), old, new)

RECURSIVE SplitFrom(_, _, _)
\* strings.Split(s, sep), sep not empty; cur is the piece read so far
SplitFrom(s, sep, cur) ==
    IF s = <<>> THEN <<cur>>
    ELSE IF HasPrefix(s, sep)
    THEN <<cur>> \o SplitFrom(SubSeq(s, Len(sep) + 1, Len(s)), sep, <<>>)
    ELSE SplitFrom(Tail(s), sep, Append(cur, Head(s)))

Split(s, sep) == SplitFrom(s, sep, <<>>)

RECURSIVE TrimRight(_, _)
\* strings.TrimRight(s, cutset)
TrimRight(s, cutset) ==
    IF s # <<>> /\ s[Len(s)] \in cutset THEN TrimRight(SubSeq(s, 1, Len(s) - 1), cutset) ELSE s

RECURSIVE TrimLeft(_, _)
TrimLeft(s, cutset) ==
    IF s # <<>> /\ Head(s) \in cutset THEN TrimLeft(Tail(s), cutset) ELSE s

\* the white space of unicode.IsSpace among the characters of the model
WhiteSpace == {" ", "\t", "\n", "\r", "\f"}

\* strings.TrimSpace(s)
TrimSpace(s) == TrimLeft(TrimRight(s, WhiteSpace), WhiteSpace)

(***************************************************************************)
(* normalizeBody.                                                          *)
(***************************************************************************)
\* lines[i] = strings.TrimRight(lines[i], " \t")
TrimLines(lines) == [i \in DOMAIN lines |-> TrimRight(lines[i], {" ", "\t"})]

RECURSIVE DropLeadingBlank(_)
DropLeadingBlank(lines) ==
    IF Len(lines) > 0 /\ TrimSpace(lines[1]) = <<>> THEN DropLeadingBlank(Tail(lines)) ELSE lines

RECURSIVE DropTrailingBlank(_)
DropTrailingBlank(lines) ==
    IF Len(lines) > 0 /\ TrimSpace(lines[Len(lines)]) = <<>>
    THEN DropTrailingBlank(SubSeq(lines, 1, Len(lines) - 1))
    ELSE lines

RECURSIVE DropLeadingEmpty(_)
DropLeadingEmpty(lines) ==
    IF Len(lines) > 0 /\ lines[1] = <<>> THEN DropLeadingEmpty(Tail(lines)) ELSE lines

RECURSIVE DropTrailingEmpty(_)
DropTrailingEmpty(lines) ==
    IF Len(lines) > 0 /\ lines[Len(lines)] = <<>>
    THEN DropTrailingEmpty(SubSeq(lines, 1, Len(lines) - 1))
    ELSE lines

\* normalizeBody with the blank lines dropped before the lines are trimmed,
\* by a test for the empty line
normalizeBodyDropFirst(s) ==
    LET lf == ReplaceAll(ReplaceAll(s, <<"\r", "\n">>, <<"\n">>), <<"\r">>, <<"\n">>)
    IN  JoinParts(TrimLines(DropTrailingEmpty(DropLeadingEmpty(Split(lf, <<"\n">>)))), <<"\n">>)

normalizeBody(s) ==
    LET lf == ReplaceAll(ReplaceAll(s, <<"\r", "\n">>, <<"\n">>), <<"\r">>, <<"\n">>)
    IN  JoinParts(DropTrailingBlank(DropLeadingBlank(TrimLines(Split(lf, <<"\n">>)))), <<"\n">>)

(***************************************************************************)
(* FuncInfo, FuncKey and the record collectFuncs builds per declaration.   *)
(***************************************************************************)
UpperChars == {"F", "M", "T"}

\* ast.Ident.IsExported: the name starts with an upper-case letter
IsExported(name) == name # <<>> /\ Head(name) \in UpperChars

FuncKey(pkg, receiver, name) == [Package |-> pkg, Receiver |-> receiver, Name |-> name]

\* the FuncInfo of collectFuncs, from the values it reads off one *ast.FuncDecl
MakeInfo(pkgPath, path, name, receiver, ft, startLine, endLine) ==
    LET lineCount == endLine - startLine + 1
    IN  [Package   |-> pkgPath,
         File      |-> path,
         Name      |-> name,
         Receiver  |-> receiver,
         Signature |-> formatSignature(ft),
         Exported  |-> IsExported(name),
         StartLine |-> startLine,
         EndLine   |-> endLine,
         LineCount |-> IF lineCount < 0 THEN 0 ELSE lineCount]

KeyOf(info) == FuncKey(info.Package, info.Receiver, info.Name)

(***************************************************************************)
(* collectFuncs.  A file of the listing is the path gitListGoFiles         *)
(* returned, whether gitShowFile and parser.ParseFile succeed on it, its   *)
(* package clause and the *ast.FuncDecl nodes ast.Inspect visits, in order.*)
(***************************************************************************)
FuncDecl(name, recv, ft, startLine, endLine) ==
    [Name |-> name, Recv |-> recv, Type |-> ft, StartLine |-> startLine, EndLine |-> endLine]

GoFile(path, showOk, parseOk, pkgName, decls) ==
    [path |-> path, showOk |-> showOk, parseOk |-> parseOk, pkgName |-> pkgName,
     decls |-> decls]

\* the pseudo package path: the directory joined with the package name
PkgPathOf(path, pkgName) ==
    IF Dir(path) = <<".">> THEN pkgName ELSE Dir(path) \o <<"/">> \o pkgName

\* the FuncInfo built from one *ast.FuncDecl
InfoOfDecl(pkgPath, path, fn) ==
    MakeInfo(pkgPath, path, fn.Name, formatReceiver(fn.Recv), fn.Type, fn.StartLine, fn.EndLine)

\* funcs[key] = info
Store(funcs, info) == (KeyOf(info) :> info) @@ funcs

RECURSIVE InspectFile(_, _, _, _, _)
\* the callback of ast.Inspect applied to the declarations of one file
InspectFile(funcs, pkgPath, path, decls, onlyExported) ==
    IF decls = <<>> THEN funcs
    ELSE IF onlyExported /\ ~IsExported(Head(decls).Name)
    THEN InspectFile(funcs, pkgPath, path, Tail(decls), onlyExported)
    ELSE InspectFile(Store(funcs, InfoOfDecl(pkgPath, path, Head(decls))), pkgPath, path,
                     Tail(decls), onlyExported)

\* one iteration of the loop with a parse error that does not skip the file:
\* the declarations parsed before the error are recorded
FileStepKeepsPartial(funcs, f, onlyExported, pkgFilter) ==
    IF ~f.showOk THEN funcs
    ELSE IF pkgFilter # <<>> /\ ~Contains(PkgPathOf(f.path, f.pkgName), pkgFilter) THEN funcs
    ELSE InspectFile(funcs, PkgPathOf(f.path, f.pkgName), f.path, f.decls, onlyExported)

\* one iteration of the loop over the files
FileStep(funcs, f, onlyExported, pkgFilter) ==
    IF ~f.showOk THEN funcs
    ELSE IF ~f.parseOk THEN funcs
    ELSE IF pkgFilter # <<>> /\ ~Contains(PkgPathOf(f.path, f.pkgName), pkgFilter) THEN funcs
    ELSE InspectFile(funcs, PkgPathOf(f.path, f.pkgName), f.path, f.decls, onlyExported)

RECURSIVE CollectLoop(_, _, _, _)
CollectLoop(rest, funcs, onlyExported, pkgFilter) ==
    IF rest = <<>> THEN funcs
    ELSE CollectLoop(Tail(rest), FileStep(funcs, Head(rest), onlyExported, pkgFilter),
                     onlyExported, pkgFilter)

\* collectFuncs: listed is what gitListGoFiles returned, its error or the files
collectFuncs(listed, onlyExported, pkgFilter) ==
    IF ~listed.ok THEN [funcs |-> <<>>, err |-> TRUE]
    ELSE [funcs |-> CollectLoop(listed.files, <<>>, onlyExported, pkgFilter), err |-> FALSE]

(***************************************************************************)
(* diffFuncs.  Go iterates a map in an unspecified order: the two loops    *)
(* take the order of the keys as an input.                                 *)
(***************************************************************************)
ZeroStats == [New |-> 0, Removed |-> 0, Changed |-> 0]

\* getStats: the stats of a package, created on first use
getStats(PkgStats, pkg) ==
    IF pkg \in DOMAIN PkgStats THEN PkgStats ELSE PkgStats @@ (pkg :> ZeroStats)

\* the comparison of lines 340-343
IsChangedMissingEndLine(fromInfo, toInfo) ==
    \/ fromInfo.Signature # toInfo.Signature
    \/ fromInfo.File # toInfo.File
    \/ fromInfo.StartLine # toInfo.StartLine

IsChangedLineCount(fromInfo, toInfo) ==
    \/ fromInfo.Signature # toInfo.Signature
    \/ fromInfo.File # toInfo.File
    \/ fromInfo.StartLine # toInfo.StartLine
    \/ fromInfo.LineCount # toInfo.EndLine

IsChangedOneWay(fromInfo, toInfo) ==
    \/ fromInfo.Signature # toInfo.Signature
    \/ fromInfo.File # toInfo.File
    \/ fromInfo.StartLine # toInfo.StartLine
    \/ fromInfo.EndLine < toInfo.EndLine

IsChanged(fromInfo, toInfo) ==
    \/ fromInfo.Signature # toInfo.Signature
    \/ fromInfo.File # toInfo.File
    \/ fromInfo.StartLine # toInfo.StartLine
    \/ fromInfo.EndLine # toInfo.EndLine

\* one iteration of the first loop (lines 331-347)
FromStepCountsRemoved(res, fromSet, toSet, key) ==
    LET fromInfo == fromSet[key]
    IN  IF key \notin DOMAIN toSet
        THEN [res EXCEPT !.NewFuncs = Append(@, fromInfo),
                         !.PkgStats = [getStats(@, fromInfo.Package)
                                          EXCEPT ![fromInfo.Package].Removed = @ + 1]]
        ELSE IF IsChanged(fromInfo, toSet[key])
        THEN [res EXCEPT !.ChangedFuncs = Append(@, <<fromInfo, toSet[key]>>),
                         !.PkgStats = [getStats(@, fromInfo.Package)
                                          EXCEPT ![fromInfo.Package].Changed = @ + 1]]
        ELSE res

FromStep(res, fromSet, toSet, key) ==
    LET fromInfo == fromSet[key]
    IN  IF key \notin DOMAIN toSet
        THEN [res EXCEPT !.NewFuncs = Append(@, fromInfo),
                         !.PkgStats = [getStats(@, fromInfo.Package)
                                          EXCEPT ![fromInfo.Package].New = @ + 1]]
        ELSE IF IsChanged(fromInfo, toSet[key])
        THEN [res EXCEPT !.ChangedFuncs = Append(@, <<fromInfo, toSet[key]>>),
                         !.PkgStats = [getStats(@, fromInfo.Package)
                                          EXCEPT ![fromInfo.Package].Changed = @ + 1]]
        ELSE res

\* one iteration of the second loop (lines 350-355)
ToStepNoExistsCheck(res, fromSet, toSet, key) ==
    LET toInfo == toSet[key]
    IN  [res EXCEPT !.RemovedFuncs = Append(@, toInfo),
                    !.PkgStats = [getStats(@, toInfo.Package)
                                     EXCEPT ![toInfo.Package].Removed = @ + 1]]

ToStep(res, fromSet, toSet, key) ==
    LET toInfo == toSet[key]
    IN  IF key \notin DOMAIN fromSet
        THEN [res EXCEPT !.RemovedFuncs = Append(@, toInfo),
                         !.PkgStats = [getStats(@, toInfo.Package)
                                          EXCEPT ![toInfo.Package].Removed = @ + 1]]
        ELSE res

RECURSIVE FromLoop(_, _, _, _)
FromLoop(res, fromSet, toSet, order) ==
    IF order = <<>> THEN res
    ELSE FromLoop(FromStep(res, fromSet, toSet, Head(order)), fromSet, toSet, Tail(order))

RECURSIVE ToLoop(_, _, _, _)
ToLoop(res, fromSet, toSet, order) ==
    IF order = <<>> THEN res
    ELSE ToLoop(ToStep(res, fromSet, toSet, Head(order)), fromSet, toSet, Tail(order))

\* diffFuncs(from, to) when the maps are ranged over in fromOrder and toOrder
diffFuncs(fromSet, toSet, fromOrder, toOrder) ==
    LET start == [NewFuncs     |-> <<>>,
                  RemovedFuncs |-> <<>>,
                  ChangedFuncs |-> <<>>,
                  FromTotal    |-> Cardinality(DOMAIN fromSet),
                  ToTotal      |-> Cardinality(DOMAIN toSet),
                  PkgStats     |-> <<>>]
    IN  ToLoop(FromLoop(start, fromSet, toSet, fromOrder), fromSet, toSet, toOrder)

\* the orders in which a range loop may visit the keys of a map
Orders(keys) ==
    {o \in [1..Cardinality(keys) -> keys] : \A i, j \in DOMAIN o : i # j => o[i] # o[j]}

(***************************************************************************)
(* The per-function report: extractLines, formatFuncHeader,                *)
(* changedFuncFilenameWithRecv and writeChangedFuncFile.                   *)
(***************************************************************************)
\* extractLines(src, startLine, endLine): lines startLine..endLine, 1-based
extractLines(src, startLine, endLine) ==
    LET lines == Split(src, <<"\n">>)
        first == IF startLine < 1 THEN 1 ELSE startLine
        last == IF endLine > Len(lines) THEN Len(lines) ELSE endLine
    IN  IF first > last THEN <<>> ELSE JoinParts(SubSeq(lines, first, last), <<"\n">>)

formatFuncHeader(info) ==
    LET recvPart == IF info.Receiver # <<>> THEN <<"(">> \o info.Receiver \o <<")", " ">>
                    ELSE <<>>
    IN  <<"f", "u", "n", "c", " ">> \o recvPart \o info.Name \o info.Signature

tMd == <<".", "m", "d">>

tIdentical == <<"i", "d", "e", "n", "t", "i", "c", "a", "l", "_">>

changedFuncFilenameWithRecv(info) ==
    LET safePath == ReplaceAll(ReplaceAll(info.File, <<"/">>, <<"_">>), <<"\\">>, <<"_">>)
    IN  IF info.Receiver # <<>>
        THEN safePath \o <<"_", "_">> \o ReplaceAll(info.Receiver, <<"*">>, <<"p", "t", "r">>)
                 \o <<"_", "_">> \o info.Name \o tMd
        ELSE safePath \o <<"_", "_">> \o info.Name \o tMd

\* the refs and the output directory of the modelled runs
refFrom == <<"d", "e", "v">>

refTo == <<"m", "a", "s", "t", "e", "r">>

dirOut == <<"o", "u", "t">>

\* what gitShowFile returns: the content of the file, or an error
ShowOk(src) == [ok |-> TRUE, src |-> src]

ShowErr == [ok |-> FALSE, src |-> <<>>]

\* nothing written, nothing returned
NoFile == [name |-> <<>>, err |-> FALSE, wrote |-> FALSE, path |-> <<>>, content |-> <<>>]

\* one side of the report: header, file, lines, and the body when it is not blank
SideReport(ref, info, body) ==
    [ref    |-> ref,
     header |-> formatFuncHeader(info),
     file   |-> info.File,
     lines  |-> <<info.StartLine, info.EndLine, info.LineCount>>,
     body   |-> IF TrimSpace(body) # <<>> THEN <<"body", body>> ELSE <<"unavailable">>]

\* isIdenticalBody := nf != "" && nf == nt
NonEmptyAndEqual(nf, nt) == nf # <<>> /\ nf = nt

\* (IsIdenticalBodyRaw: the bodies compared as read, not normalized)
IsIdenticalBodyRaw(fromBody, toBody) == NonEmptyAndEqual(fromBody, toBody)

IsIdenticalBody(fromBody, toBody) ==
    NonEmptyAndEqual(normalizeBody(fromBody), normalizeBody(toBody))

\* the body of one side: the lines of the record, or "" when gitShowFile failed
BodyOf(show, info) ==
    IF show.ok THEN extractLines(show.src, info.StartLine, info.EndLine) ELSE <<>>

FullName(info) ==
    IF info.Receiver # <<>> THEN <<"(">> \o info.Receiver \o <<")", ".">> \o info.Name
    ELSE info.Name

\* the report of a pair once the bodies are compared and the base name is
\* built.  The content is kept as the parts the function prints, in order;
\* the closing "report hash" line is a function (sha1) of those parts and is
\* left out.
ReportFile(outDir, fromRef, toRef, fromInfo, toInfo, fromBody, toBody, isIdenticalBody, plainName, writeOk) ==
    IF ~writeOk THEN [NoFile EXCEPT !.err = TRUE]
    ELSE [name    |-> IF isIdenticalBody THEN tIdentical \o plainName ELSE plainName,
          err     |-> FALSE,
          wrote   |-> TRUE,
          path    |-> outDir \o <<"/">>
                          \o (IF isIdenticalBody THEN tIdentical \o plainName ELSE plainName),
          content |-> [title |-> <<FullName(fromInfo), fromInfo.File>>,
                       fromSide |-> SideReport(fromRef, fromInfo, fromBody),
                       toSide |-> SideReport(toRef, toInfo, toBody),
                       signatureChange |->
                           IF fromInfo.Signature # toInfo.Signature
                           THEN <<fromInfo.Signature, toInfo.Signature>> ELSE <<>>,
                       identicalNote |-> isIdenticalBody]]

\* the part of writeChangedFuncFile after the two bodies are loaded
CompareAndWrite(outDir, fromRef, toRef, fromInfo, toInfo, fromBody, toBody, writeOk) ==
    ReportFile(outDir, fromRef, toRef, fromInfo, toInfo, fromBody, toBody,
               IsIdenticalBody(fromBody, toBody), changedFuncFilenameWithRecv(fromInfo),
               writeOk)

\* writeChangedFuncFile, given the outcomes of os.MkdirAll, of the two
\* gitShowFile calls and of ioutil.WriteFile
writeChangedFuncFile(outDir, fromRef, toRef, fromInfo, toInfo, mkdirOk, showFrom, showTo, writeOk) ==
    IF outDir = <<>> THEN NoFile
    ELSE IF ~mkdirOk THEN [NoFile EXCEPT !.err = TRUE]
    ELSE CompareAndWrite(outDir, fromRef, toRef, fromInfo, toInfo,
                         BodyOf(showFrom, fromInfo), BodyOf(showTo, toInfo), writeOk)

(***************************************************************************)
(* Sorting: sort.Strings and the < of Go strings compare byte by byte.     *)
(***************************************************************************)
\* the characters of the model in the order of their byte values
AsciiOrder ==
    <<"\t", "\n", "\f", "\r", " ", "(", ")", "*", ",", ".", "/", "<", ">", "?",
      "F", "M", "T", "[", "\\", "]", "_",
      "a", "b", "c", "d", "e", "f", "g", "h", "i", "j", "k", "l", "m",
      "n", "o", "p", "q", "r", "s", "t", "u", "v", "w", "x", "y", "z", "{", "}">>

CharCode(c) == CHOOSE i \in DOMAIN AsciiOrder : AsciiOrder[i] = c

RECURSIVE StringLess(_, _)
\* a < b for Go strings
StringLess(a, b) ==
    IF b = <<>> THEN FALSE
    ELSE IF a = <<>> THEN TRUE
    ELSE IF Head(a) = Head(b) THEN StringLess(Tail(a), Tail(b))
    ELSE CharCode(Head(a)) < CharCode(Head(b))

\* sort.Strings
SortStrings(strs) == SortSeq(strs, StringLess)

\* the keys of a map collected into a slice, then sorted
SortedSet(strs) == SortStrings(CHOOSE o \in Orders(strs) : TRUE)

(***************************************************************************)
(* printFuncListByPackage, writeAllChangedFuncFiles, addChangedFilesIndex  *)
(* and buildMarkdownReport.  The document is kept as the sequence of the   *)
(* entries the code prints, each with the values it formats.               *)
(***************************************************************************)
\* the less function of sort.Slice: by receiver, then by name
FuncLess(a, b) ==
    IF a.Receiver = b.Receiver THEN StringLess(a.Name, b.Name)
    ELSE StringLess(a.Receiver, b.Receiver)

SelectPackage(funcs, pkg) == SelectSeq(funcs, LAMBDA f : f.Package = pkg)

FuncEntry(f) ==
    <<"func", FullName(f), f.Signature, f.File, f.StartLine, f.EndLine, f.LineCount>>

\* the entries of one package, its list already sorted
PackageEntries(pkg, list) ==
    <<<<"package", pkg>>>> \o [i \in DOMAIN list |-> FuncEntry(list[i])]

RECURSIVE PackageSections(_, _)
PackageSections(pkgs, funcs) ==
    IF pkgs = <<>> THEN <<>>
    ELSE PackageEntries(Head(pkgs), SortSeq(SelectPackage(funcs, Head(pkgs)), FuncLess))
             \o PackageSections(Tail(pkgs), funcs)

printFuncListByPackage(funcs) ==
    PackageSections(SortedSet({funcs[i].Package : i \in DOMAIN funcs}), funcs)

\* os.WriteFile succeeds unless the name is one the file system refuses
WriteOk(fsEnv, fromInfo) == changedFuncFilenameWithRecv(fromInfo) \notin fsEnv.unwritable

\* gitShowFile(ref, path) in the modelled repository: every file holds one
\* line at the --from ref and two lines at the --to ref
gitShowFile(ref, path) ==
    IF ref = refFrom THEN ShowOk(<<"a">>) ELSE ShowOk(<<"a", "\n", "a">>)

\* the result of one writeChangedFuncFile call added to the names returned
\* and to the writes done so far
Collect(acc, w) ==
    IF w.err THEN acc
    ELSE [names  |-> IF w.name # <<>> THEN Append(acc.names, w.name) ELSE acc.names,
          writes |-> IF w.wrote THEN Append(acc.writes, <<w.path, w.content>>)
                     ELSE acc.writes]

\* one iteration of the loop of writeAllChangedFuncFiles
WriteOne(outDir, fromRef, toRef, fromInfo, toInfo, fsEnv) ==
    writeChangedFuncFile(outDir, fromRef, toRef, fromInfo, toInfo, fsEnv.mkdirOk,
                         gitShowFile(fromRef, fromInfo.File), gitShowFile(toRef, toInfo.File),
                         WriteOk(fsEnv, fromInfo))

RECURSIVE WriteLoop(_, _, _, _, _, _)
\* the loop of writeAllChangedFuncFiles: the names returned and the writes done
WriteLoop(outDir, fromRef, toRef, changed, fsEnv, acc) ==
    IF changed = <<>> THEN acc
    ELSE WriteLoop(outDir, fromRef, toRef, Tail(changed), fsEnv,
                   Collect(acc, WriteOne(outDir, fromRef, toRef, Head(changed)[1],
                                         Head(changed)[2], fsEnv)))

NoWrites == [names |-> <<>>, writes |-> <<>>]

writeAllChangedFuncFiles(outDir, fromRef, toRef, changed, fsEnv) ==
    IF outDir = <<>> THEN NoWrites
    ELSE IF ~fsEnv.mkdirOk THEN NoWrites
    ELSE WriteLoop(outDir, fromRef, toRef, changed, fsEnv, NoWrites)

\* the index lines, the names already sorted
IndexLines(outDir, sorted) ==
    <<<<"index", outDir>>>> \o [i \in DOMAIN sorted |-> <<"file", outDir \o <<"/">> \o sorted[i]>>]

\* addChangedFilesIndex without the sort.Strings call
addChangedFilesIndexUnsorted(outDir, names) ==
    IF outDir = <<>> \/ Len(names) = 0 THEN <<>> ELSE IndexLines(outDir, names)

addChangedFilesIndex(outDir, names) ==
    IF outDir = <<>> \/ Len(names) = 0 THEN <<>> ELSE IndexLines(outDir, SortStrings(names))

\* the "- `file`: `name`" lines printed when there is no output directory
ChangedList(changed) ==
    [i \in DOMAIN changed |-> <<"changed", changed[i][1].File, FullName(changed[i][1])>>]

\* header, summary and the table of packages, the packages already sorted
SummaryLines(fromRef, toRef, diff, pkgs) ==
    <<<<"header", fromRef, toRef>>,
      <<"summary", diff.FromTotal, diff.ToTotal, Len(diff.NewFuncs),
        Len(diff.RemovedFuncs), Len(diff.ChangedFuncs)>>>>
        \o [i \in DOMAIN pkgs |->
               <<"row", pkgs[i], diff.PkgStats[pkgs[i]].New,
                 diff.PkgStats[pkgs[i]].Removed, diff.PkgStats[pkgs[i]].Changed>>]

\* the sections of the new and of the removed functions
ListingLines(fromRef, toRef, diff) ==
    <<<<"new-functions", fromRef, toRef>>>>
        \o (IF Len(diff.NewFuncs) = 0 THEN <<<<"none">>>>
            ELSE printFuncListByPackage(diff.NewFuncs))
        \o <<<<"removed-functions", toRef>>>>
        \o (IF Len(diff.RemovedFuncs) = 0 THEN <<<<"none">>>>
            ELSE printFuncListByPackage(diff.RemovedFuncs))

\* the branches of buildMarkdownReport after the table: head and listings are
\* the lines above, all is what writeAllChangedFuncFiles does when it is called
ReportOf(summaryOnly, outDir, diff, head, listings, all) ==
    IF summaryOnly
    THEN IF outDir # <<>>
         THEN [diff |-> diff, doc |-> head \o addChangedFilesIndex(outDir, all.names),
               names |-> all.names, writes |-> all.writes]
         ELSE [diff |-> diff, doc |-> head, names |-> <<>>, writes |-> <<>>]
    ELSE IF Len(diff.ChangedFuncs) = 0
    THEN [diff |-> diff,
          doc |-> head \o listings \o <<<<"changed-functions">>, <<"none">>>>,
          names |-> <<>>, writes |-> <<>>]
    ELSE IF outDir # <<>>
    THEN [diff |-> diff,
          doc |-> head \o listings \o <<<<"changed-functions">>>>
                      \o addChangedFilesIndex(outDir, all.names),
          names |-> all.names, writes |-> all.writes]
    ELSE [diff |-> diff,
          doc |-> head \o listings \o <<<<"changed-functions">>>>
                      \o ChangedList(diff.ChangedFuncs),
          names |-> <<>>, writes |-> <<>>]

\* buildMarkdownReport once diffFuncs has returned
RenderDiff(fromRef, toRef, summaryOnly, outDir, diff, fsEnv) ==
    ReportOf(summaryOnly, outDir, diff,
             SummaryLines(fromRef, toRef, diff, SortedSet(DOMAIN diff.PkgStats)),
             ListingLines(fromRef, toRef, diff),
             writeAllChangedFuncFiles(outDir, fromRef, toRef, diff.ChangedFuncs, fsEnv))

\* buildMarkdownReport: the document returned, the names writeAllChangedFuncFiles
\* returned and the files written, for one iteration order of the two maps
buildMarkdownReport(fromRef, toRef, fromFuncs, toFuncs, summaryOnly, outDir,
                    fromOrder, toOrder, fsEnv) ==
    RenderDiff(fromRef, toRef, summaryOnly, outDir,
               diffFuncs(fromFuncs, toFuncs, fromOrder, toOrder), fsEnv)

RECURSIVE ApplyWrites(_, _)
\* the directory after the writes, a later write replacing an earlier one
ApplyWrites(dir, writes) ==
    IF writes = <<>> THEN dir
    ELSE ApplyWrites((Head(writes)[1] :> Head(writes)[2]) @@ dir, Tail(writes))

(***************************************************************************)
(* The declarations of the modelled repository.                            *)
(***************************************************************************)
tInt == <<"i", "n", "t">>

tError == <<"e", "r", "r", "o", "r">>

\* func F(x int), func F(y int), func F(x *T) (error)
ftXInt == FuncType(<<Field(<<<<"x">>>>, Ident(tInt))>>, <<>>)

ftYInt == FuncType(<<Field(<<<<"y">>>>, Ident(tInt))>>, <<>>)

ftXPtrErr == FuncType(<<Field(<<<<"x">>>>, StarExpr(Ident(<<"T">>)))>>,
                      <<Field(<<>>, Ident(tError))>>)

FuncTypes == {ftXInt, ftYInt, ftXPtrErr}

pkgMain == <<"m", "a", "i", "n">>

pkgLib == <<"l", "i", "b", "/", "l", "i", "b">>

fileMainGo == <<"m", "a", "i", "n", ".", "g", "o">>

fileUtilGo == <<"u", "t", "i", "l", ".", "g", "o">>

fileLibGo == <<"l", "i", "b", "/", "l", "i", "b", ".", "g", "o">>

Ranges == {r \in (1..MaxLine) \X (1..MaxLine) : r[1] <= r[2]}

\* main.F: parameter x or y, any line range, in main.go
DeclsF ==
    {MakeInfo(pkgMain, fileMainGo, <<"F">>, <<>>, ft, r[1], r[2]) :
        ft \in {ftXInt, ftYInt}, r \in Ranges}

\* main.(*T).M: in main.go or util.go
DeclsM ==
    {MakeInfo(pkgMain, f, <<"M">>, <<"*", "T">>, ftXInt, 1, 1) : f \in {fileMainGo, fileUtilGo}}

\* lib/lib.f, not exported: two signatures
DeclsLib ==
    {MakeInfo(pkgLib, fileLibGo, <<"f">>, <<>>, ft, 1, 1) : ft \in {ftXInt, ftXPtrErr}}

Decls == DeclsF \cup DeclsM \cup DeclsLib

Keys == {KeyOf(d) : d \in Decls}

\* the FuncSets collectFuncs can build: every record is stored under its own key
Inventories ==
    UNION {{inv \in [ks -> Decls] : \A k \in ks : KeyOf(inv[k]) = k} : ks \in SUBSET Keys}

\* the variables of collectFuncs in the runs that start after the inventories are built
NoListing == [ok |-> TRUE, files |-> <<>>]

NoFlags == [onlyExported |-> FALSE, pkgFilter |-> <<>>]

NoCollected == [funcs |-> <<>>, err |-> FALSE]

NoOpts == [summaryOnly |-> FALSE, outDir |-> <<>>]

NoEnv == [mkdirOk |-> TRUE, unwritable |-> {}]

NoResult == [NewFuncs |-> <<>>, RemovedFuncs |-> <<>>, ChangedFuncs |-> <<>>,
             FromTotal |-> 0, ToTotal |-> 0, PkgStats |-> <<>>]

(***************************************************************************)
(* The diff engine run on two inventories, then again with the two refs    *)
(* exchanged (funcdiff --from B --to A).                                   *)
(***************************************************************************)
Init ==
    /\ pc = "start"
    /\ from \in Inventories
    /\ to \in Inventories
    /\ result = NoResult
    /\ normIn = <<>> /\ normOut = <<>> /\ normCalls = 0
    /\ pair = <<>> /\ shown = <<>> /\ written = NoFile
    /\ opts = NoOpts /\ env = NoEnv /\ report = <<>> /\ files = <<>> /\ outFiles = <<>>
    /\ listing = NoListing /\ flags = NoFlags /\ collected = NoCollected

DiffFuncs ==
    /\ pc = "start"
    /\ \E fromOrder \in Orders(DOMAIN from), toOrder \in Orders(DOMAIN to) :
           result' = diffFuncs(from, to, fromOrder, toOrder)
    /\ pc' = "diffed"
    /\ UNCHANGED <<from, to, normVars, fileVars, reportVars, collectVars>>

DiffSwapped ==
    /\ pc = "diffed"
    /\ from' = to
    /\ to' = from
    /\ \E fromOrder \in Orders(DOMAIN to), toOrder \in Orders(DOMAIN from) :
           result' = diffFuncs(to, from, fromOrder, toOrder)
    /\ pc' = "swapped"
    /\ UNCHANGED <<normVars, fileVars, reportVars, collectVars>>

Next == DiffFuncs \/ DiffSwapped

Spec == Init /\ [][Next]_vars

(***************************************************************************)
(* Properties of the diff engine.                                          *)
(***************************************************************************)
Done == pc \in {"diffed", "swapped"}

InfoKeys(list) == {KeyOf(list[i]) : i \in DOMAIN list}

NewKeys(res) == InfoKeys(res.NewFuncs)

RemovedKeys(res) == InfoKeys(res.RemovedFuncs)

ChangedKeys(res) == {KeyOf(res.ChangedFuncs[i][1]) : i \in DOMAIN res.ChangedFuncs}

Both == DOMAIN from \cap DOMAIN to

\* C1: every key of from and to is classified exactly once: NewFuncs holds
\* exactly the records whose key is only in from, RemovedFuncs exactly those
\* whose key is only in to, ChangedFuncs only keys of both, no key is listed
\* twice and the three key sets are pairwise disjoint.
C1_Classification ==
    Done =>
        /\ NewKeys(result) = DOMAIN from \ DOMAIN to
        /\ RemovedKeys(result) = DOMAIN to \ DOMAIN from
        /\ ChangedKeys(result) \subseteq Both
        /\ \A i \in DOMAIN result.NewFuncs :
               result.NewFuncs[i] = from[KeyOf(result.NewFuncs[i])]
        /\ \A i \in DOMAIN result.RemovedFuncs :
               result.RemovedFuncs[i] = to[KeyOf(result.RemovedFuncs[i])]
        /\ Cardinality(NewKeys(result)) = Len(result.NewFuncs)
        /\ Cardinality(RemovedKeys(result)) = Len(result.RemovedFuncs)
        /\ Cardinality(ChangedKeys(result)) = Len(result.ChangedFuncs)
        /\ NewKeys(result) \cap RemovedKeys(result) = {}
        /\ NewKeys(result) \cap ChangedKeys(result) = {}
        /\ RemovedKeys(result) \cap ChangedKeys(result) = {}

C1_Witness ==
    /\ Done
    /\ result.NewFuncs # <<>>
    /\ result.RemovedFuncs # <<>>
    /\ result.ChangedFuncs # <<>>

FourFieldsEqual(a, b) ==
    /\ a.Signature = b.Signature
    /\ a.File = b.File
    /\ a.StartLine = b.StartLine
    /\ a.EndLine = b.EndLine

InChanged(res, a, b) == \E i \in DOMAIN res.ChangedFuncs : res.ChangedFuncs[i] = <<a, b>>

\* C2: a key of both inventories is in ChangedFuncs, as the pair (fromRecord,
\* toRecord), exactly when Signature, File, StartLine or EndLine differs; a
\* key whose four fields are equal is in none of the three lists.
C2_ChangedIffFieldDiffers ==
    Done =>
        \A k \in Both :
            /\ InChanged(result, from[k], to[k]) <=> ~FourFieldsEqual(from[k], to[k])
            /\ k \in ChangedKeys(result) <=> ~FourFieldsEqual(from[k], to[k])
            /\ FourFieldsEqual(from[k], to[k]) =>
                   k \notin NewKeys(result) \cup RemovedKeys(result) \cup ChangedKeys(result)

\* a line-range shift alone (same signature, same file) is listed as changed,
\* next to a key of both inventories that is not listed at all
C2_Witness ==
    /\ Done
    /\ \E k \in Both :
           /\ from[k].Signature = to[k].Signature
           /\ from[k].File = to[k].File
           /\ from[k].StartLine = to[k].StartLine
           /\ from[k].EndLine # to[k].EndLine
           /\ InChanged(result, from[k], to[k])
    /\ \E k \in Both : FourFieldsEqual(from[k], to[k])

CountNew(res, p) == Cardinality({i \in DOMAIN res.NewFuncs : res.NewFuncs[i].Package = p})

CountRemoved(res, p) ==
    Cardinality({i \in DOMAIN res.RemovedFuncs : res.RemovedFuncs[i].Package = p})

CountChanged(res, p) ==
    Cardinality({i \in DOMAIN res.ChangedFuncs : res.ChangedFuncs[i][1].Package = p})

Packages == {k.Package : k \in Keys}

RECURSIVE SumOver(_, _, _)
SumOver(stats, pkgs, column) ==
    IF pkgs = {} THEN 0
    ELSE LET p == CHOOSE q \in pkgs : TRUE
         IN  (CASE column = "New" -> stats[p].New
                [] column = "Removed" -> stats[p].Removed
                [] column = "Changed" -> stats[p].Changed)
                 + SumOver(stats, pkgs \ {p}, column)

\* C3: PkgStats[p] counts the NewFuncs and ChangedFuncs whose from-side
\* Package is p and the RemovedFuncs whose Package is p; p has an entry only
\* if one of the counts is not zero; the columns sum to the lengths of the
\* three lists.
C3_PkgStats ==
    Done =>
        /\ DOMAIN result.PkgStats =
               {p \in Packages : CountNew(result, p) + CountRemoved(result, p)
                                     + CountChanged(result, p) > 0}
        /\ \A p \in DOMAIN result.PkgStats :
               /\ result.PkgStats[p].New = CountNew(result, p)
               /\ result.PkgStats[p].Removed = CountRemoved(result, p)
               /\ result.PkgStats[p].Changed = CountChanged(result, p)
        /\ SumOver(result.PkgStats, DOMAIN result.PkgStats, "New") = Len(result.NewFuncs)
        /\ SumOver(result.PkgStats, DOMAIN result.PkgStats, "Removed") = Len(result.RemovedFuncs)
        /\ SumOver(result.PkgStats, DOMAIN result.PkgStats, "Changed") = Len(result.ChangedFuncs)

\* two packages counted, one with a new and a changed declaration, one with
\* a removed declaration only
C3_Witness ==
    /\ Done
    /\ pkgMain \in DOMAIN result.PkgStats
    /\ pkgLib \in DOMAIN result.PkgStats
    /\ result.PkgStats[pkgMain] = [New |-> 1, Removed |-> 0, Changed |-> 1]
    /\ result.PkgStats[pkgLib] = [New |-> 0, Removed |-> 1, Changed |-> 0]

\* C4: diffFuncs(X, X) has empty NewFuncs, RemovedFuncs and ChangedFuncs and
\* no per-package entry.
C4_DiffOfSelfIsEmpty ==
    (Done /\ from = to) =>
        /\ result.NewFuncs = <<>>
        /\ result.RemovedFuncs = <<>>
        /\ result.ChangedFuncs = <<>>
        /\ DOMAIN result.PkgStats = {}

C4_Witness ==
    /\ pc = "diffed"
    /\ from = to
    /\ DOMAIN from = Keys
    /\ result.FromTotal = Cardinality(Keys)

\* C5: the keys of diffFuncs(from, to).NewFuncs are the keys of
\* diffFuncs(to, from).RemovedFuncs, and the two directions have the same
\* changed keys.
C5_Symmetry ==
    [][(pc = "diffed" /\ pc' = "swapped") =>
           /\ NewKeys(result) = RemovedKeys(result')
           /\ RemovedKeys(result) = NewKeys(result')
           /\ ChangedKeys(result) = ChangedKeys(result')]_vars

C5_Witness ==
    /\ pc = "swapped"
    /\ result.RemovedFuncs # <<>>
    /\ result.NewFuncs # <<>>
    /\ result.ChangedFuncs # <<>>

RECURSIVE FieldTypes(_)
\* the types of a parameter or result list in order, one per declared name
FieldTypes(list) ==
    IF list = <<>> THEN <<>>
    ELSE LET f == Head(list)
             n == IF Len(f.Names) = 0 THEN 1 ELSE Len(f.Names)
         IN  [i \in 1..n |-> f.Type] \o FieldTypes(Tail(list))

SameTypes(ft1, ft2) ==
    /\ FieldTypes(ft1.Params) = FieldTypes(ft2.Params)
    /\ FieldTypes(ft1.Results) = FieldTypes(ft2.Results)

\* C6: a declaration with the same key, file and lines on both sides whose
\* parameter and result lists differ only in the parameter names has the
\* same signature text on both sides and is not classified as changed.
C6_RenameIsNotAChange ==
    Done =>
        \A k \in Both : \A ft1, ft2 \in FuncTypes :
            (/\ from[k].Signature = formatSignature(ft1)
             /\ to[k].Signature = formatSignature(ft2)
             /\ SameTypes(ft1, ft2)
             /\ from[k].File = to[k].File
             /\ from[k].StartLine = to[k].StartLine
             /\ from[k].EndLine = to[k].EndLine)
            => (formatSignature(ft1) = formatSignature(ft2) /\ k \notin ChangedKeys(result))

(***************************************************************************)
(* normalizeBody applied to a body text, and again to what it returned.    *)
(***************************************************************************)
BodyChars == {"a", " ", "\t", "\f", "\r", "\n"}

TextsUpTo(chars, n) == UNION {[1..len -> chars] : len \in 0..n}

InitNorm ==
    /\ pc = "normalize"
    /\ from = <<>> /\ to = <<>> /\ result = NoResult
    /\ normIn \in TextsUpTo(BodyChars, MaxNormLen)
    /\ normOut = <<>>
    /\ normCalls = 0
    /\ pair = <<>> /\ shown = <<>> /\ written = NoFile
    /\ opts = NoOpts /\ env = NoEnv /\ report = <<>> /\ files = <<>> /\ outFiles = <<>>
    /\ listing = NoListing /\ flags = NoFlags /\ collected = NoCollected

NormalizeBody ==
    /\ pc = "normalize"
    /\ normCalls = 0
    /\ normOut' = normalizeBody(normIn)
    /\ normCalls' = 1
    /\ UNCHANGED <<pc, diffVars, normIn, fileVars, reportVars, collectVars>>

NormalizeAgain ==
    /\ pc = "normalize"
    /\ normCalls = 1
    /\ normOut' = normalizeBody(normOut)
    /\ normCalls' = 2
    /\ UNCHANGED <<pc, diffVars, normIn, fileVars, reportVars, collectVars>>

NextNorm == NormalizeBody \/ NormalizeAgain

SpecNorm == InitNorm /\ [][NextNorm]_vars

\* C8: normalizeBody(normalizeBody(s)) = normalizeBody(s) for every body
\* text s: applying normalizeBody to its own result returns it unchanged.
C8_NormalizeIdempotent == [][normCalls = 1 => normOut' = normOut]_vars

\* a text with a CR, a CRLF and a trailing blank, normalized twice
C8_Witness ==
    /\ normCalls = 2
    /\ normIn = <<"\r", "a", " ", "\r", "\n">>
    /\ normOut = <<"a">>

(***************************************************************************)
(* writeChangedFuncFile on one changed pair, for every content the two     *)
(* gitShowFile calls may return.                                           *)
(***************************************************************************)
SrcChars == {"a", " ", "\t", "\r", "\n"}

\* main.F changed from lines 1-2 to lines 1-3
BodyPair == <<MakeInfo(pkgMain, fileMainGo, <<"F">>, <<>>, ftXInt, 1, 2),
              MakeInfo(pkgMain, fileMainGo, <<"F">>, <<>>, ftXInt, 1, 3)>>

\* the file at the --from ref: missing, or any text of up to MaxSrcLen characters
ShowResultsFrom == {ShowErr} \cup {ShowOk(src) : src \in TextsUpTo(SrcChars, MaxSrcLen)}

\* the file at the --to ref: missing, or any text one character shorter
ShowResultsTo == {ShowErr} \cup {ShowOk(src) : src \in TextsUpTo(SrcChars, MaxSrcLen - 1)}

InitBody ==
    /\ pc = "write"
    /\ from = <<>> /\ to = <<>> /\ result = NoResult
    /\ normIn = <<>> /\ normOut = <<>> /\ normCalls = 0
    /\ pair = BodyPair
    /\ shown = <<>>
    /\ written = NoFile
    /\ opts = NoOpts /\ env = NoEnv /\ report = <<>> /\ files = <<>> /\ outFiles = <<>>
    /\ listing = NoListing /\ flags = NoFlags /\ collected = NoCollected

\* os.MkdirAll fails: the function returns before it reads anything
WriteChangedFuncFileNoDir ==
    /\ pc = "write"
    /\ written' = writeChangedFuncFile(dirOut, refFrom, refTo, pair[1], pair[2],
                                       FALSE, ShowErr, ShowErr, FALSE)
    /\ pc' = "returned"
    /\ UNCHANGED <<diffVars, normVars, pair, shown, reportVars, collectVars>>

WriteChangedFuncFile ==
    /\ pc = "write"
    /\ \E showFrom \in ShowResultsFrom, showTo \in ShowResultsTo, writeOk \in BOOLEAN :
           /\ shown' = <<showFrom, showTo>>
           /\ written' = writeChangedFuncFile(dirOut, refFrom, refTo, pair[1], pair[2],
                                              TRUE, showFrom, showTo, writeOk)
    /\ pc' = "returned"
    /\ UNCHANGED <<diffVars, normVars, pair, reportVars, collectVars>>

NextBody == WriteChangedFuncFileNoDir \/ WriteChangedFuncFile

SpecBody == InitBody /\ [][NextBody]_vars

\* the bodies writeChangedFuncFile extracted for the pair
FromBody == IF shown[1].ok THEN extractLines(shown[1].src, pair[1].StartLine, pair[1].EndLine)
            ELSE <<>>

ToBody == IF shown[2].ok THEN extractLines(shown[2].src, pair[2].StartLine, pair[2].EndLine)
          ELSE <<>>

RECURSIVE LinesOf(_, _)
\* the lines of a text whose lines end in CRLF, CR or LF, each without its
\* trailing spaces and tabs
LinesOf(s, cur) ==
    IF s = <<>> THEN <<TrimRight(cur, {" ", "\t"})>>
    ELSE IF HasPrefix(s, <<"\r", "\n">>)
    THEN <<TrimRight(cur, {" ", "\t"})>> \o LinesOf(SubSeq(s, 3, Len(s)), <<>>)
    ELSE IF Head(s) \in {"\r", "\n"}
    THEN <<TrimRight(cur, {" ", "\t"})>> \o LinesOf(Tail(s), <<>>)
    ELSE LinesOf(Tail(s), Append(cur, Head(s)))

\* identical content except for trailing whitespace on lines and line-ending style
SameContent(a, b) == LinesOf(a, <<>>) = LinesOf(b, <<>>)

Flagged == written.content.identicalNote /\ HasPrefix(written.name, tIdentical)

\* C7 as claimed: a written report whose two bodies are identical except for
\* trailing whitespace and line-ending style is flagged identical (the note
\* and the "identical_" prefix), also when both bodies are empty,
\* whitespace-only or could not be retrieved.
C7_IdenticalBodiesFlagged ==
    (pc = "returned" /\ written.wrote) => (SameContent(FromBody, ToBody) => Flagged)

\* C7 as amended: such a pair is flagged when its bodies hold a character
\* that is not white space; a pair whose two bodies are empty, whitespace-only
\* or unavailable is not flagged; the note and the prefix go together.
C7_NonBlankIdenticalBodiesFlagged ==
    (pc = "returned" /\ written.wrote) =>
        /\ (SameContent(FromBody, ToBody) /\ TrimSpace(FromBody) # <<>>) => Flagged
        /\ (TrimSpace(FromBody) = <<>> \/ TrimSpace(ToBody) = <<>>) => ~Flagged
        /\ written.content.identicalNote <=> HasPrefix(written.name, tIdentical)

\* "a", CRLF against "a", LF: different texts, flagged identical
C7_Witness ==
    /\ pc = "returned"
    /\ written.wrote
    /\ shown[1] = ShowOk(<<"a", "\r", "\n">>)
    /\ shown[2] = ShowOk(<<"a", "\n">>)
    /\ FromBody # ToBody
    /\ Flagged

(***************************************************************************)
(* buildMarkdownReport run on two inventories whose artifact names may     *)
(* collide, then run again on the same inputs.                             *)
(***************************************************************************)
fileAUnderB == <<"a", "_", "b", ".", "g", "o">>

fileASlashB == <<"a", "/", "b", ".", "g", "o">>

pkgA == <<"a", "/", "m", "a", "i", "n">>

\* the declarations of the report runs: F in a_b.go and F in a/b.go, methods
\* M of *T and of ptrT, method M of T and function T__M
ReportDecl(k, startLine, endLine) ==
    CASE k = 1 -> MakeInfo(pkgMain, fileAUnderB, <<"F">>, <<>>, ftXInt, startLine, endLine)
      [] k = 2 -> MakeInfo(pkgA, fileASlashB, <<"F">>, <<>>, ftXInt, startLine, endLine)
      [] k = 3 -> MakeInfo(pkgMain, fileAUnderB, <<"M">>, <<"*", "T">>, ftXInt, startLine, endLine)
      [] k = 4 -> MakeInfo(pkgMain, fileAUnderB, <<"M">>, <<"p", "t", "r", "T">>, ftXInt,
                           startLine, endLine)
      [] k = 5 -> MakeInfo(pkgMain, fileAUnderB, <<"M">>, <<"T">>, ftXInt, startLine, endLine)
      [] k = 6 -> MakeInfo(pkgMain, fileAUnderB, <<"T", "_", "_", "M">>, <<>>, ftXInt,
                           startLine, endLine)

ReportDeclIds == {1, 2, 3, 4, 5, 6}

\* the inventory of the declarations ids, all at the same lines
ReportInventory(ids, startLine, endLine) ==
    [k \in {KeyOf(ReportDecl(i, startLine, endLine)) : i \in ids} |->
        LET i == CHOOSE j \in ids : KeyOf(ReportDecl(j, startLine, endLine)) = k
        IN  ReportDecl(i, startLine, endLine)]

\* at most MaxReportFuncs of the declarations
ReportIdSets == {x \in SUBSET ReportDeclIds : Cardinality(x) <= MaxReportFuncs}

\* the declarations of the two refs: the same, or one added or removed between them
RefPairs ==
    {p \in ReportIdSets \X ReportIdSets :
        Cardinality((p[1] \ p[2]) \cup (p[2] \ p[1])) <= 1}

\* the names os.WriteFile may refuse
Unwritable == {{}, {changedFuncFilenameWithRecv(ReportDecl(1, 1, 1))}}

\* the flags and the file system of a run; without an output directory the
\* file system is never touched, and when os.MkdirAll fails nothing is written
RunConfigs ==
    {c \in [summaryOnly : BOOLEAN, outDir : {<<>>, dirOut}, mkdirOk : BOOLEAN,
            unwritable : Unwritable] :
        /\ c.outDir = <<>> => (c.mkdirOk /\ c.unwritable = {})
        /\ ~c.mkdirOk => c.unwritable = {}}

InitReport ==
    /\ pc = "start"
    /\ \E p \in RefPairs :
           /\ from = ReportInventory(p[1], 1, 1)
           /\ to = ReportInventory(p[2], 1, 2)
    /\ result = NoResult
    /\ normIn = <<>> /\ normOut = <<>> /\ normCalls = 0
    /\ pair = <<>> /\ shown = <<>> /\ written = NoFile
    /\ \E c \in RunConfigs :
           /\ opts = [summaryOnly |-> c.summaryOnly, outDir |-> c.outDir]
           /\ env = [mkdirOk |-> c.mkdirOk, unwritable |-> c.unwritable]
    /\ report = <<>>
    /\ files = <<>>
    /\ outFiles = <<>>
    /\ listing = NoListing /\ flags = NoFlags /\ collected = NoCollected

\* one call of buildMarkdownReport
RunReport ==
    \E fromOrder \in Orders(DOMAIN from), toOrder \in Orders(DOMAIN to) :
        \E r \in {buildMarkdownReport(refFrom, refTo, from, to, opts.summaryOnly, opts.outDir,
                                      fromOrder, toOrder, env)} :
            /\ result' = r.diff
            /\ report' = r.doc
            /\ files' = r.names
            /\ outFiles' = ApplyWrites(outFiles, r.writes)

BuildReport ==
    /\ pc = "start"
    /\ RunReport
    /\ pc' = "reported"
    /\ UNCHANGED <<from, to, normVars, fileVars, opts, env, collectVars>>

\* funcdiff run a second time with the same arguments, repository and file system
Rerun ==
    /\ pc = "reported"
    /\ RunReport
    /\ pc' = "rerun"
    /\ UNCHANGED <<from, to, normVars, fileVars, opts, env, collectVars>>

NextReport == BuildReport \/ Rerun

SpecReport == InitReport /\ [][NextReport]_vars

Reported == pc \in {"reported", "rerun"}

\* C9: the changed pairs of one run are written to pairwise distinct file
\* names: no artifact replaces another, and the output directory holds one
\* file per name writeAllChangedFuncFiles returned.
C9_DistinctArtifactNames ==
    Reported =>
        /\ \A i, j \in DOMAIN files : i # j => files[i] # files[j]
        /\ Cardinality(DOMAIN outFiles) = Len(files)

\* C10: a second run on the same inputs returns the same document and leaves
\* the same files with the same contents, whatever the order in which the
\* maps are iterated.
C10_RerunReproducesOutput ==
    [][(pc = "reported" /\ pc' = "rerun") => (report' = report /\ outFiles' = outFiles)]_vars

\* os.MkdirAll was called for the output directory and failed
MkdirFailed ==
    /\ opts.outDir # <<>>
    /\ ~env.mkdirOk
    /\ (opts.summaryOnly \/ Len(result.ChangedFuncs) > 0)

\* C11: when the output directory is requested and cannot be created, the
\* run ends without a report: no summary document is returned to main and
\* printed.
C11_MkdirFailureIsFatal == (Reported /\ MkdirFailed) => report = <<>>

\* the lines of the index in the document: its heading and its entries
IndexHeadings == SelectSeq(report, LAMBDA entry : entry[1] = "index")

IndexEntries == SelectSeq(report, LAMBDA entry : entry[1] = "file")

\* the changed pairs whose file can be written
WritablePairs ==
    SelectSeq(result.ChangedFuncs,
              LAMBDA pr : env.mkdirOk /\ changedFuncFilenameWithRecv(pr[1]) \notin env.unwritable)

\* the name under which a pair is written, with or without the prefix
NamesOfPair(pr) ==
    {changedFuncFilenameWithRecv(pr[1]), tIdentical \o changedFuncFilenameWithRecv(pr[1])}

\* C13: with an output directory, in both modes, the index lists the names
\* of the files written for the changed pairs and no other, one entry per
\* successful write, each under the output directory, in sorted order; a
\* pair whose write fails is left out and the pairs after it are still
\* written; without an output directory nothing is written and there is no
\* index.
C13_IndexListsWrittenFiles ==
    Reported =>
        /\ opts.outDir # <<>> =>
               /\ Len(IndexEntries) = Len(WritablePairs)
               /\ \A i \in DOMAIN WritablePairs :
                      \E n \in NamesOfPair(WritablePairs[i]) :
                          /\ files[i] = n
                          /\ opts.outDir \o <<"/">> \o n \in DOMAIN outFiles
                          /\ \E j \in DOMAIN IndexEntries :
                                 IndexEntries[j][2] = opts.outDir \o <<"/">> \o n
               /\ {IndexEntries[j][2] : j \in DOMAIN IndexEntries} = DOMAIN outFiles
               /\ \A i, j \in DOMAIN IndexEntries :
                      i < j => ~StringLess(IndexEntries[j][2], IndexEntries[i][2])
               /\ Len(IndexHeadings) = (IF Len(IndexEntries) > 0 THEN 1 ELSE 0)
        /\ opts.outDir = <<>> =>
               /\ outFiles = <<>>
               /\ IndexHeadings = <<>> /\ IndexEntries = <<>>

\* summary-only run with an output directory: two files written in an order
\* that is not the sorted one, both in the index
C13_Witness ==
    /\ Reported
    /\ opts.outDir # <<>> /\ opts.summaryOnly
    /\ Len(files) = 2
    /\ StringLess(files[2], files[1])
    /\ Len(IndexEntries) = 2

(***************************************************************************)
(* collectFuncs run on the files of one ref, some of which cannot be read  *)
(* or parsed.                                                              *)
(***************************************************************************)
MaxFiles == 2

fileAGo == <<"a", ".", "g", "o">>

fileBGo == <<"b", ".", "g", "o">>

fileXAGo == <<"x", "/", "a", ".", "g", "o">>

CollectPaths == {fileAGo, fileBGo, fileXAGo}

\* the receivers of the declarations: none, (r T), (r *T), (r *T[K]), (r T[K])
RecvNone == <<>>

RecvT == <<Field(<<<<"r">>>>, Ident(<<"T">>))>>

RecvPtrT == <<Field(<<<<"r">>>>, StarExpr(Ident(<<"T">>)))>>

RecvPtrGeneric == <<Field(<<<<"r">>>>, StarExpr(IndexExpr(Ident(<<"T">>), Ident(<<"K">>))))>>

RecvGeneric == <<Field(<<<<"r">>>>, IndexExpr(Ident(<<"T">>), Ident(<<"K">>)))>>

\* the declarations of a file, each on the line of its position in the file
DeclsAt(shapes) ==
    [j \in DOMAIN shapes |-> FuncDecl(shapes[j][1], shapes[j][2], ftXInt, j, j)]

\* what a file that parses may declare
DeclLists ==
    {DeclsAt(shapes) : shapes \in
        {<<>>,
         <<<<<<"F">>, RecvNone>>>>,
         <<<<<<"f">>, RecvNone>>>>,
         <<<<<<"F">>, RecvNone>>, <<<<"F">>, RecvNone>>>>,
         <<<<<<"f">>, RecvNone>>, <<<<"F">>, RecvNone>>>>,
         <<<<<<"F">>, RecvT>>>>,
         <<<<<<"F">>, RecvPtrT>>, <<<<"F">>, RecvT>>>>,
         <<<<<<"F">>, RecvPtrGeneric>>>>,
         <<<<<<"F">>, RecvNone>>, <<<<"F">>, RecvPtrGeneric>>>>,
         <<<<<<"F">>, RecvGeneric>>>>}}

\* what the partial tree of a file that fails to parse may hold
PartialDeclLists ==
    {DeclsAt(shapes) : shapes \in
        {<<>>,
         <<<<<<"F">>, RecvNone>>>>,
         <<<<<<"F">>, RecvPtrT>>, <<<<"F">>, RecvT>>>>}}

\* a file of the ref under a path: unreadable, unparseable or parsed
FilesAt(path) ==
    {GoFile(path, FALSE, FALSE, pkgMain, <<>>)}
        \cup {GoFile(path, TRUE, FALSE, pkgMain, decls) : decls \in PartialDeclLists}
        \cup {GoFile(path, TRUE, TRUE, pkgMain, decls) : decls \in DeclLists}

RECURSIVE FileLists(_)
\* the lists of files over the paths of an order
FileLists(paths) ==
    IF paths = <<>> THEN {<<>>}
    ELSE {<<f>> \o rest : f \in FilesAt(Head(paths)), rest \in FileLists(Tail(paths))}

\* what gitListGoFiles may return: an error, or at most MaxFiles files of distinct paths
Listings ==
    {[ok |-> FALSE, files |-> <<>>]}
        \cup {[ok |-> TRUE, files |-> fl] :
                 fl \in UNION {FileLists(o) :
                     o \in UNION {Orders(ps) :
                         ps \in {x \in SUBSET CollectPaths : Cardinality(x) <= MaxFiles}}}}

FlagChoices == [onlyExported : BOOLEAN, pkgFilter : {<<>>, <<"x">>}]

InitCollect ==
    /\ pc = "list"
    /\ from = <<>> /\ to = <<>> /\ result = NoResult
    /\ normIn = <<>> /\ normOut = <<>> /\ normCalls = 0
    /\ pair = <<>> /\ shown = <<>> /\ written = NoFile
    /\ opts = NoOpts /\ env = NoEnv /\ report = <<>> /\ files = <<>> /\ outFiles = <<>>
    /\ listing \in Listings
    /\ flags \in FlagChoices
    /\ collected = NoCollected

\* one call of collectFuncs
CollectFuncs ==
    /\ pc = "list"
    /\ collected' = collectFuncs(listing, flags.onlyExported, flags.pkgFilter)
    /\ pc' = "collected"
    /\ UNCHANGED <<diffVars, normVars, fileVars, reportVars, listing, flags>>

NextCollect == CollectFuncs

SpecCollect == InitCollect /\ [][NextCollect]_vars

Collected == pc = "collected"

\* the file at position p[1] of the listing and its declaration at position p[2]
FileOf(p) == listing.files[p[1]]

DeclOf(p) == FileOf(p).decls[p[2]]

\* the declarations that count: in a file that was read and parsed, of a
\* package the filter lets through, exported when only those are asked for
Counted ==
    {p \in UNION {{<<i, j>> : j \in DOMAIN listing.files[i].decls} : i \in DOMAIN listing.files} :
        /\ FileOf(p).showOk /\ FileOf(p).parseOk
        /\ flags.pkgFilter # <<>> =>
               Contains(PkgPathOf(FileOf(p).path, FileOf(p).pkgName), flags.pkgFilter)
        /\ flags.onlyExported => IsExported(DeclOf(p).Name)}

RecordOf(p) == InfoOfDecl(PkgPathOf(FileOf(p).path, FileOf(p).pkgName), FileOf(p).path, DeclOf(p))

VisitedAfter(p, q) == p[1] > q[1] \/ (p[1] = q[1] /\ p[2] > q[2])

\* the record of the last visited of the counted declarations with key k
LastRecord(k) ==
    RecordOf(CHOOSE p \in Counted :
                 /\ KeyOf(RecordOf(p)) = k
                 /\ \A q \in Counted : KeyOf(RecordOf(q)) = k => ~VisitedAfter(q, p))

\* the inventory of the files that neither fail to be read nor fail to parse
InventoryOfReadable == [k \in {KeyOf(RecordOf(p)) : p \in Counted} |-> LastRecord(k)]

\* C12: whatever files fail to be read or to parse, collectFuncs returns no
\* error and exactly the inventory of the other files, visited in the same
\* order, a later declaration replacing an earlier one under the same key;
\* with onlyExported no record is unexported, and with a package filter
\* every record's package path contains it.
C12_FileFailuresAreSkipped ==
    (Collected /\ listing.ok) =>
        /\ ~collected.err
        /\ collected.funcs = InventoryOfReadable
        /\ flags.onlyExported =>
               \A k \in DOMAIN collected.funcs : collected.funcs[k].Exported
        /\ flags.pkgFilter # <<>> =>
               \A k \in DOMAIN collected.funcs :
                   Contains(collected.funcs[k].Package, flags.pkgFilter)

\* a file that failed to parse after two declarations, next to a file whose
\* second declaration replaced its first
C12_Witness ==
    /\ Collected /\ listing.ok
    /\ \E i \in DOMAIN listing.files :
           /\ listing.files[i].showOk /\ ~listing.files[i].parseOk
           /\ Len(listing.files[i].decls) = 2
    /\ \E i \in DOMAIN listing.files :
           /\ listing.files[i].showOk /\ listing.files[i].parseOk
           /\ Len(listing.files[i].decls) = 2
           /\ Cardinality(DOMAIN collected.funcs) = 1
           /\ \E k \in DOMAIN collected.funcs : collected.funcs[k].StartLine = 2

\* C14: the receiver of a record is empty exactly when the declaration is a
\* function: every method, whatever the shape of its receiver type, gets a
\* receiver text that is not empty, T and *T get different texts, and so no
\* method is recorded under the key of a function of the same name in the
\* same package.
C14_ReceiverEmptyOnlyForFunctions ==
    (Collected /\ listing.ok) =>
        /\ \A p \in Counted : (RecordOf(p).Receiver = <<>>) <=> (DeclOf(p).Recv = <<>>)
        /\ \A p, q \in Counted :
               (DeclOf(p).Recv = RecvT /\ DeclOf(q).Recv = RecvPtrT) =>
                   RecordOf(p).Receiver # RecordOf(q).Receiver
        /\ \A p, q \in Counted :
               (DeclOf(p).Recv # <<>> /\ DeclOf(q).Recv = <<>>) =>
                   KeyOf(RecordOf(p)) # KeyOf(RecordOf(q))

=============================================================================
